---- MODULE Spec2Model ----
(***************************************************************************)
(* Time-bounded adversarial search of AIND-Isolation/game_agent.py:        *)
(* MinimaxPlayer (fixed-depth minimax) and AlphaBetaPlayer (iterative      *)
(* deepening over alpha-beta), run as an explicit call stack in which      *)
(* every invocation polls the deadline clock.                              *)
(***************************************************************************)
EXTENDS Integers, Sequences, FiniteSets, TLC

(* ------------------------------ bounds -------------------------------- *)
\* deepest search the clock lets start (the iterative-deepening loop itself is unbounded)
MaxDepth == 3
\* most legal moves of one state
MaxBranch == 2
\* most states of one game tree, the root included
MaxNodes == 7
\* finite heuristic values are 0..MaxHeur
MaxHeur == 1
\* the board cells a legal-move list of common_moves_score is drawn from
MaxCells == 3
\* longest legal-move list given to common_moves_score
MaxMoves == 2

(* --------------------------- program constants ------------------------ *)
\* float("inf"); float("-inf") is its negation
PosInf == 1000
NegInf == -PosInf
\* IsolationPlayer.__init__: timeout=10.
TIMER_THRESHOLD == 10
\* the move (-1, -1)
Sentinel == <<-1, -1>>

Min(a, b) == IF a <= b THEN a ELSE b
Max(a, b) == IF a >= b THEN a ELSE b

(* ------------------------- the game state ----------------------------- *)
(* A game state is [active, h, kids]: whose turn it is ("self" is the      *)
(* searching player), the finite heuristic of the state, and the           *)
(* successor states in the order of the legal-move enumeration.            *)

\* the i-th legal move of a state, a board coordinate pair
MoveAt(i) == <<0, i - 1>>

get_legal_moves(g) == [i \in 1..Len(g.kids) |-> MoveAt(i)]

forecast_move(g, i) == g.kids[i]

is_loser(g, p) == g.active = p /\ Len(g.kids) = 0

is_winner(g, p) == g.active # p /\ Len(g.kids) = 0

ActiveAt(level) == IF level % 2 = 0 THEN "self" ELSE "opp"

\* a state below the deepest searched level: only its existence is observed
Stub(level) == [active |-> ActiveAt(level), h |-> 0, kids |-> <<>>]

RECURSIVE Size(_, _)
\* the states of g at levels up to MaxDepth, g being at `level`
Size(g, level) ==
    IF level > MaxDepth THEN 0
    ELSE LET RECURSIVE Sum(_)
             Sum(i) == IF i = 0 THEN 0 ELSE Size(g.kids[i], level + 1) + Sum(i - 1)
         IN  1 + Sum(Len(g.kids))

RECURSIVE GamesAt(_, _), Forests(_, _, _)
\* the game states at `level` plies below the root with at most n states
GamesAt(level, n) ==
    IF n <= 0 THEN {}
    ELSE { [active |-> ActiveAt(level), h |-> 0, kids |-> <<>>] }
         \cup UNION { { [active |-> ActiveAt(level), h |-> x, kids |-> f] :
                          x \in (IF level = 0 THEN {0} ELSE 0..MaxHeur) }
                      : f \in Forests(level + 1, n - 1, MaxBranch) \ {<<>>} }
\* the successor lists of at most k states at `level`, n states in all
Forests(level, n, k) ==
    IF k = 0 THEN {<<>>}
    ELSE IF level > MaxDepth THEN {<<>>, <<Stub(level)>>}
    ELSE {<<>>} \cup UNION { { <<g>> \o f : f \in Forests(level, n - Size(g, level), k - 1) }
                            : g \in GamesAt(level, n) }

Games == GamesAt(0, MaxNodes)

(* -------------------------- evaluation policy ------------------------- *)
\* the policy without its is_winner check
custom_score_no_win(g) ==
    IF is_loser(g, "self") THEN NegInf ELSE g.h

\* custom_score(game, self): the terminal checks, then the finite heuristic
custom_score(g) ==
    IF is_loser(g, "self") THEN NegInf
    ELSE IF is_winner(g, "self") THEN PosInf
    ELSE g.h

(* ------------------------------ the state ----------------------------- *)
VARIABLES
    game,          \* the state get_move / the search was called with
    algo,          \* "minimax" (MinimaxPlayer) or "alphabeta" (AlphaBetaPlayer)
    search_depth,  \* self.search_depth
    depth,         \* the depth argument of the search in flight
    best_move,     \* get_move's local best_move
    stack,         \* the frames of the search in flight, the root call first
    pc,            \* where the caller of the search is
    result,        \* what get_move returned
    reading,       \* the last value read from self.time_left()
    completed,     \* the searches that returned: [algo, depth, move, score, work, trace]
    work,          \* evaluations, move enumerations and forecasts executed so far
    trace,         \* the states the search in flight forecast and scored, in order
    own_moves,     \* common_moves_score: its first argument
    opp_moves,     \* common_moves_score: its second argument
    comm_moves_score  \* common_moves_score: what it returned

vars == <<game, algo, search_depth, depth, best_move, stack, pc, result, reading, completed, work,
          trace, own_moves, opp_moves, comm_moves_score>>

\* the arguments and the result of common_moves_score
heur == <<own_moves, opp_moves, comm_moves_score>>

None == <<>>

\* what self.time_left() may return: just below the threshold, and the threshold
Readings == {TIMER_THRESHOLD - 1, TIMER_THRESHOLD}

Top == stack[Len(stack)]
Caller == stack[Len(stack) - 1]
Below == SubSeq(stack, 1, Len(stack) - 1)
Below2 == SubSeq(stack, 1, Len(stack) - 2)

\* the state of the innermost invocation, as the moves that lead to it from the root
PathOfTop == [i \in 1..(Len(stack) - 1) |-> stack[i].idx]

\* the deadline test with the threshold itself counted as too late
TimedOutAtThreshold(t) == t <= TIMER_THRESHOLD

\* `if self.time_left() < self.TIMER_THRESHOLD`
TimedOut(t) == t < TIMER_THRESHOLD

\* the limit tested one ply late in the helpers of alphabeta only
AtDepthLimitAlphaBetaLate(level, d) == IF algo = "alphabeta" THEN level > d ELSE level >= d

\* the limit tested one ply late
AtDepthLimitLate(level, d) == level > d

\* `if level >= depth`
AtDepthLimit(level, d) == level >= d

\* `best_move = (-1, -1)` left out of the search
RootBestMoveUnset == None

\* `best_move = (-1, -1)` at the head of the root loop
RootBestMove == Sentinel

\* helpers whose running value starts at the wrong infinity
FrameSwappedInit(fn, g, level, alpha, beta) ==
    [fn |-> fn, game |-> g, level |-> level, alpha |-> alpha, beta |-> beta,
     v |-> IF fn = "max_value" THEN PosInf ELSE NegInf,
     move |-> RootBestMove, idx |-> 1, pc |-> "check", polled |-> FALSE, scored |-> FALSE]

\* helpers that start on their body, the deadline check being in the root call only
FrameUnpolled(fn, g, level, alpha, beta) ==
    [fn |-> fn, game |-> g, level |-> level, alpha |-> alpha, beta |-> beta,
     v |-> IF fn = "min_value" THEN PosInf ELSE NegInf,
     move |-> RootBestMove, idx |-> 1, pc |-> IF fn = "root" THEN "check" ELSE "body",
     polled |-> FALSE, scored |-> FALSE]

\* a fresh invocation: the root call (minimax / alphabeta) or a helper
Frame(fn, g, level, alpha, beta) ==
    [fn |-> fn, game |-> g, level |-> level, alpha |-> alpha, beta |-> beta,
     v |-> IF fn = "min_value" THEN PosInf ELSE NegInf,
     move |-> RootBestMove, idx |-> 1, pc |-> "check", polled |-> FALSE, scored |-> FALSE]

\* self.minimax(game, depth) / self.alphabeta(game, depth): alpha, beta default
RootCall(g) == Frame("root", g, 0, NegInf, PosInf)

\* the bounds the root loop hands to min_value: (best_score, +inf) in alphabeta
RootAlpha(f) == IF algo = "alphabeta" THEN f.v ELSE NegInf

\* the call made by one loop iteration on the i-th legal move
ChildCall(f, i) ==
    IF f.fn = "root"
    THEN Frame("min_value", forecast_move(f.game, i), 1, RootAlpha(f), PosInf)
    ELSE Frame(IF f.fn = "min_value" THEN "max_value" ELSE "min_value",
               forecast_move(f.game, i), f.level + 1, f.alpha, f.beta)

\* the loop of f goes on to its next move, or is exhausted and f returns
Advance(f) ==
    [f EXCEPT !.idx = f.idx + 1,
              !.pc = IF f.idx + 1 > Len(get_legal_moves(f.game)) THEN "ret" ELSE "body"]

\* the cutoff of min_value tested against beta
MinCutoffSwapped(f, v) == algo = "alphabeta" /\ v <= f.beta

\* `if v <= alpha: return v` in alphabeta's min_value
MinCutoff(f, v) == algo = "alphabeta" /\ v <= f.alpha

\* the cutoff of max_value tested against alpha
MaxCutoffSwapped(f, v) == algo = "alphabeta" /\ v >= f.alpha

\* `if v >= beta: return v` in alphabeta's max_value
MaxCutoff(f, v) == algo = "alphabeta" /\ v >= f.beta

\* `if minValue > best_score`
Improves(minValue, best_score) == minValue > best_score

\* min_value after max_value returned rv
MinAfter(f, rv) ==
    LET v == Min(f.v, rv) IN
    IF MinCutoff(f, v) THEN [f EXCEPT !.v = v, !.pc = "ret"]
    ELSE Advance([f EXCEPT !.v = v, !.beta = IF algo = "alphabeta" THEN Min(f.beta, v) ELSE f.beta])

\* max_value after min_value returned rv
MaxAfter(f, rv) ==
    LET v == Max(f.v, rv) IN
    IF MaxCutoff(f, v) THEN [f EXCEPT !.v = v, !.pc = "ret"]
    ELSE Advance([f EXCEPT !.v = v, !.alpha = IF algo = "alphabeta" THEN Max(f.alpha, v) ELSE f.alpha])

\* the root loop after min_value returned minValue for the move at f.idx
RootAfter(f, minValue) ==
    IF Improves(minValue, f.v)
    THEN Advance([f EXCEPT !.v = minValue, !.move = get_legal_moves(f.game)[f.idx]])
    ELSE Advance(f)

(* ------------------------- the search, step by step ------------------- *)
Searching == pc = "search" /\ stack # <<>>

\* the deadline check at the top of every invocation finds time left (the
\* clock lets no search deeper than MaxDepth start: the loop of get_move
\* is unbounded)
TimerOk ==
    /\ Searching /\ Top.pc = "check"
    /\ depth <= MaxDepth
    /\ \E t \in Readings :
          /\ ~TimedOut(t)
          /\ reading' = t
    /\ stack' = Below \o <<[Top EXCEPT !.pc = "body", !.polled = TRUE]>>
    /\ UNCHANGED <<game, algo, search_depth, depth, best_move, pc, result, completed, work>>
    /\ UNCHANGED trace
    /\ UNCHANGED heur

\* the deadline check raises SearchTimeout, which leaves every frame
RaiseTimeout ==
    /\ Searching /\ Top.pc = "check"
    /\ \E t \in Readings :
          /\ TimedOut(t)
          /\ reading' = t
    /\ stack' = <<>>
    /\ pc' = "timeout"
    /\ UNCHANGED <<game, algo, search_depth, depth, best_move, result, completed, work>>
    /\ UNCHANGED trace
    /\ UNCHANGED heur

\* `return self.score(game, self)` at the depth limit
Evaluate ==
    /\ Searching /\ Top.pc = "body" /\ Top.fn # "root"
    /\ AtDepthLimit(Top.level, depth)
    /\ stack' = Below \o <<[Top EXCEPT !.v = custom_score(Top.game), !.pc = "ret", !.scored = TRUE]>>
    /\ work' = work + 1
    /\ UNCHANGED <<game, algo, search_depth, depth, best_move, pc, result, reading, completed>>
    /\ trace' = Append(trace, <<"score", PathOfTop>>)
    /\ UNCHANGED heur

InLoop == /\ Searching /\ Top.pc = "body"
          /\ IF Top.fn = "root" THEN TRUE ELSE ~AtDepthLimit(Top.level, depth)

\* one iteration of `for m in game.get_legal_moves()`: forecast and call
Descend ==
    /\ InLoop
    /\ Top.idx <= Len(get_legal_moves(Top.game))
    /\ stack' = stack \o <<ChildCall(Top, Top.idx)>>
    /\ work' = work + (IF Top.idx = 1 THEN 2 ELSE 1)
    /\ UNCHANGED <<game, algo, search_depth, depth, best_move, pc, result, reading, completed>>
    /\ trace' = Append(trace, <<"forecast", Append(PathOfTop, Top.idx)>>)
    /\ UNCHANGED heur

\* the loop over an empty enumeration: the invocation returns its initial value
NoMoves ==
    /\ InLoop
    /\ Len(get_legal_moves(Top.game)) = 0
    /\ stack' = Below \o <<[Top EXCEPT !.pc = "ret"]>>
    /\ work' = work + 1
    /\ UNCHANGED <<game, algo, search_depth, depth, best_move, pc, result, reading, completed>>
    /\ UNCHANGED trace
    /\ UNCHANGED heur

Returning == Searching /\ Len(stack) >= 2 /\ Top.pc = "ret"

ReturnToMin ==
    /\ Returning /\ Caller.fn = "min_value"
    /\ stack' = Below2 \o <<MinAfter(Caller, Top.v)>>
    /\ UNCHANGED <<game, algo, search_depth, depth, best_move, pc, result, reading, completed, work>>
    /\ UNCHANGED trace
    /\ UNCHANGED heur

ReturnToMax ==
    /\ Returning /\ Caller.fn = "max_value"
    /\ stack' = Below2 \o <<MaxAfter(Caller, Top.v)>>
    /\ UNCHANGED <<game, algo, search_depth, depth, best_move, pc, result, reading, completed, work>>
    /\ UNCHANGED trace
    /\ UNCHANGED heur

ReturnToRoot ==
    /\ Returning /\ Caller.fn = "root"
    /\ stack' = Below2 \o <<RootAfter(Caller, Top.v)>>
    /\ UNCHANGED <<game, algo, search_depth, depth, best_move, pc, result, reading, completed, work>>
    /\ UNCHANGED trace
    /\ UNCHANGED heur

\* the root call is about to return best_move
SearchReturns == Searching /\ Len(stack) = 1 /\ Top.pc = "ret"

Completion == [algo |-> algo, depth |-> depth, move |-> Top.move, score |-> Top.v, work |-> work,
               trace |-> trace]

(* ------------------------------ get_move ------------------------------ *)
\* MinimaxPlayer.get_move up to the call of self.minimax
MinimaxGetMove ==
    /\ pc = "idle" /\ algo = "minimax"
    /\ best_move' = Sentinel
    /\ depth' = search_depth
    /\ stack' = <<RootCall(game)>>
    /\ pc' = "search"
    /\ UNCHANGED <<game, algo, search_depth, result, reading, completed, work>>
    /\ trace' = <<>>
    /\ UNCHANGED heur

\* `return self.minimax(game, self.search_depth)`
MinimaxReturn ==
    /\ SearchReturns /\ algo = "minimax"
    /\ result' = Top.move
    /\ completed' = Append(completed, Completion)
    /\ stack' = <<>>
    /\ pc' = "done"
    /\ UNCHANGED <<game, algo, search_depth, depth, best_move, reading, work>>
    /\ UNCHANGED trace
    /\ UNCHANGED heur

\* a handler for another exception class
HandledOther(exc) == exc = "TimeoutError"

\* `except SearchTimeout:` handles the exception raised by the deadline check
Handled(exc) == exc = "SearchTimeout"

\* the exception reaches get_move's try block: best_move is returned if it is
\* handled there, and the exception goes on to the caller if not
CatchTimeout ==
    /\ pc = "timeout"
    /\ IF Handled("SearchTimeout")
       THEN result' = best_move /\ pc' = "done"
       ELSE result' = result /\ pc' = "raised"
    /\ UNCHANGED <<game, algo, search_depth, depth, best_move, stack, reading, completed, work>>
    /\ UNCHANGED trace
    /\ UNCHANGED heur

\* the truth value Python gives a tuple
Truthy(t) == Len(t) > 0

\* AlphaBetaPlayer.get_move up to the first call of self.alphabeta
AlphaBetaGetMove ==
    /\ pc = "idle" /\ algo = "alphabeta"
    /\ best_move' = Sentinel
    /\ depth' = 1
    /\ stack' = <<RootCall(game)>>
    /\ pc' = "search"
    /\ UNCHANGED <<game, algo, search_depth, result, reading, completed, work>>
    /\ trace' = <<>>
    /\ UNCHANGED heur

\* a guard that does drop the sentinel
KeepUnlessSentinel(temp, old) == IF temp # Sentinel THEN temp ELSE old

\* what `if temp: best_move = temp` leaves in best_move
Keep(temp, old) == IF Truthy(temp) THEN temp ELSE old

\* one turn of `while True`: keep the result, deepen, search again
Deepen ==
    /\ SearchReturns /\ algo = "alphabeta"
    /\ best_move' = Keep(Top.move, best_move)
    /\ completed' = Append(completed, Completion)
    /\ depth' = depth + 1
    /\ stack' = <<RootCall(game)>>
    /\ UNCHANGED <<game, algo, search_depth, pc, result, reading, work>>
    /\ trace' = <<>>
    /\ UNCHANGED heur

Init ==
    /\ game \in Games
    /\ \/ algo = "minimax" /\ search_depth \in 1..MaxDepth
       \/ algo = "alphabeta" /\ search_depth = MaxDepth
    /\ depth = 0
    /\ best_move = None
    /\ stack = <<>>
    /\ pc = "idle"
    /\ result = None
    /\ reading = TIMER_THRESHOLD
    /\ completed = <<>>
    /\ work = 0
    /\ trace = <<>>
    /\ own_moves = <<>> /\ opp_moves = <<>> /\ comm_moves_score = -1

Next ==
    \/ MinimaxGetMove \/ MinimaxReturn \/ AlphaBetaGetMove \/ Deepen \/ CatchTimeout
    \/ TimerOk \/ RaiseTimeout \/ Evaluate \/ Descend \/ NoMoves
    \/ ReturnToMin \/ ReturnToMax \/ ReturnToRoot

Spec == Init /\ [][Next]_vars

(* -------- both searches called directly on one state and depth -------- *)
\* self.minimax(game, depth) called with a clock installed
CallMinimax ==
    /\ pc = "idle" /\ algo = "minimax"
    /\ depth' = search_depth
    /\ stack' = <<RootCall(game)>>
    /\ pc' = "search"
    /\ UNCHANGED <<game, algo, search_depth, best_move, result, reading, completed, work>>
    /\ trace' = <<>>
    /\ UNCHANGED heur

\* minimax returned; self.alphabeta(game, depth) is called on the same state
MinimaxThenAlphaBeta ==
    /\ SearchReturns /\ algo = "minimax"
    /\ completed' = Append(completed, Completion)
    /\ algo' = "alphabeta"
    /\ stack' = <<RootCall(game)>>
    /\ UNCHANGED <<game, search_depth, depth, best_move, pc, result, reading, work>>
    /\ trace' = <<>>
    /\ UNCHANGED heur

\* alphabeta returned
AlphaBetaReturn ==
    /\ SearchReturns /\ algo = "alphabeta"
    /\ completed' = Append(completed, Completion)
    /\ stack' = <<>>
    /\ pc' = "done"
    /\ UNCHANGED <<game, algo, search_depth, depth, best_move, result, reading, work>>
    /\ UNCHANGED trace
    /\ UNCHANGED heur

\* SearchTimeout reached the direct caller
Aborted ==
    /\ pc = "timeout"
    /\ pc' = "aborted"
    /\ UNCHANGED <<game, algo, search_depth, depth, best_move, stack, result, reading, completed, work>>
    /\ UNCHANGED trace
    /\ UNCHANGED heur

SearchInit ==
    /\ game \in Games
    /\ algo = "minimax"
    /\ search_depth \in 1..MaxDepth
    /\ depth = 0
    /\ best_move = None
    /\ stack = <<>>
    /\ pc = "idle"
    /\ result = None
    /\ reading = TIMER_THRESHOLD
    /\ completed = <<>>
    /\ work = 0
    /\ trace = <<>>
    /\ own_moves = <<>> /\ opp_moves = <<>> /\ comm_moves_score = -1

SearchNext ==
    \/ CallMinimax \/ MinimaxThenAlphaBeta \/ AlphaBetaReturn \/ Aborted
    \/ TimerOk \/ RaiseTimeout \/ Evaluate \/ Descend \/ NoMoves
    \/ ReturnToMin \/ ReturnToMax \/ ReturnToRoot

SpecSearch == SearchInit /\ [][SearchNext]_vars

(* ---------------- common_moves_score applied to two lists ------------- *)
\* Python's `a and b` on lists: a when a is empty, b otherwise
PyAnd(a, b) == IF Truthy(a) THEN b ELSE a

\* `return len(own_moves and opp_moves)`
common_moves_score(own, opp) == Len(PyAnd(own, opp))

\* the legal-move lists: at most MaxMoves distinct cells, in any order
MoveLists ==
    { q \in UNION { [1..n -> { MoveAt(c) : c \in 1..MaxCells }] : n \in 0..MaxMoves } :
        \A i, j \in 1..Len(q) : i # j => q[i] # q[j] }

\* custom_score_2 / custom_score_3 call common_moves_score on the two lists
ApplyCommon ==
    /\ comm_moves_score < 0
    /\ comm_moves_score' = common_moves_score(own_moves, opp_moves)
    /\ UNCHANGED <<game, algo, search_depth, depth, best_move, stack, pc, result, reading,
                   completed, work, trace, own_moves, opp_moves>>

CommonInit ==
    /\ game = Stub(0)
    /\ algo = "minimax"
    /\ search_depth = MaxDepth
    /\ depth = 0
    /\ best_move = None
    /\ stack = <<>>
    /\ pc = "idle"
    /\ result = None
    /\ reading = TIMER_THRESHOLD
    /\ completed = <<>>
    /\ work = 0
    /\ trace = <<>>
    /\ own_moves \in MoveLists
    /\ opp_moves \in MoveLists
    /\ comm_moves_score = -1

CommonNext == ApplyCommon

SpecCommon == CommonInit /\ [][CommonNext]_vars

\* get_move under a scheduler that keeps the running program running; the
\* clock reads below the threshold by the poll of depth MaxDepth + 1
SpecFair == Init /\ [][Next]_vars /\ WF_vars(Next)

(* ----------------------- reference definitions ------------------------ *)
LegalMoves(g) == { get_legal_moves(g)[i] : i \in 1..Len(g.kids) }

SetMax(S) == CHOOSE x \in S : \A y \in S : y <= x
SetMin(S) == CHOOSE x \in S : \A y \in S : x <= y

RECURSIVE ExactValue(_, _)
\* the minimax value of state g looked `plies` plies ahead, on the searching
\* player's score scale
ExactValue(g, plies) ==
    IF plies = 0 THEN custom_score(g)
    ELSE LET vals == { ExactValue(g.kids[i], plies - 1) : i \in 1..Len(g.kids) } IN
         IF g.active = "self" THEN SetMax(vals \cup {NegInf})
         ELSE SetMin(vals \cup {PosInf})

\* the value of the i-th root move under a search of depth d
RootValue(g, i, d) == ExactValue(g.kids[i], d - 1)

\* every root move of g is lost at depth d
AllLost(g, d) == \A i \in 1..Len(g.kids) : RootValue(g, i, d) = NegInf

\* the first root move of maximal value
FirstBest(g, d) ==
    LET best == SetMax({ RootValue(g, i, d) : i \in 1..Len(g.kids) })
        i == CHOOSE j \in 1..Len(g.kids) :
                /\ RootValue(g, j, d) = best
                /\ \A k \in 1..(j - 1) : RootValue(g, k, d) # best
    IN  get_legal_moves(g)[i]

Last(q) == q[Len(q)]

HasMoves(g) == Len(g.kids) > 0

(* ------------------------------- claims ------------------------------- *)
\* C1: on the same state and depth, with no timeout, alphabeta returns the
\* move minimax returns, and the root score of that move is the same.
C1_PruningPreservesDecision ==
    pc = "done" =>
        /\ completed[1].algo = "minimax" /\ completed[2].algo = "alphabeta"
        /\ completed[1].depth = completed[2].depth
        /\ completed[2].move = completed[1].move
        /\ completed[2].score = completed[1].score

\* both searches returned at depth 3, alphabeta having skipped part of the
\* tree minimax walked, and a move was selected
C1_Witness ==
    /\ pc = "done" /\ depth = 3
    /\ completed[2].work - completed[1].work < completed[1].work
    /\ completed[2].move # Sentinel
    /\ completed[2].score \notin {NegInf, PosInf}

\* C2 (as claimed): when the state has a legal move and every root move is
\* lost at the searched depth, the search that returned chose a legal move.
C2_LostStillLegal ==
    \A k \in DOMAIN completed :
        (HasMoves(game) /\ AllLost(game, completed[k].depth))
            => completed[k].move \in LegalMoves(game)

\* C3 (as claimed): once the depth-1 search has completed,
\* AlphaBetaPlayer.get_move returns a legal move of a state that has one, and
\* the sentinel only for a state that has none.
C3_LegalResponse ==
    (pc = "done" /\ algo = "alphabeta" /\ Len(completed) >= 1)
        => IF HasMoves(game) THEN result \in LegalMoves(game) ELSE result = Sentinel

\* C4: best_move of AlphaBetaPlayer.get_move is the move of the last search
\* that completed (the sentinel before any did); cancelled during depth d, it
\* returns the result of depth d - 1.
C4_LastCompletedDepth ==
    (algo = "alphabeta" /\ pc # "idle") =>
        /\ best_move = IF completed = <<>> THEN Sentinel ELSE Last(completed).move
        /\ pc = "done" =>
              /\ depth = Len(completed) + 1
              /\ result = IF depth = 1 THEN Sentinel ELSE completed[depth - 1].move
              /\ depth > 1 => completed[depth - 1].depth = depth - 1

\* cancelled during depth 3 after depths 1 and 2 chose different moves
C4_Witness ==
    /\ algo = "alphabeta" /\ pc = "done" /\ depth = 3
    /\ completed[1].move # completed[2].move
    /\ result = completed[2].move
    /\ work > completed[2].work

\* C5: SearchTimeout never reaches the caller of get_move: whenever a reading
\* below the threshold was observed get_move returns a move, and the sentinel
\* when no search had completed.
C5_TimeoutRecovered ==
    /\ pc # "raised"
    /\ TimedOut(reading) => pc \in {"timeout", "done"}
    /\ (pc = "done" /\ TimedOut(reading)) =>
          /\ result \in LegalMoves(game) \cup {Sentinel}
          /\ completed = <<>> => result = Sentinel

\* the deadline expired inside the first search of a state that has moves
C5_Witness ==
    /\ pc = "done" /\ TimedOut(reading) /\ completed = <<>>
    /\ HasMoves(game) /\ work > 0 /\ result = Sentinel

\* C6 (as claimed): for a state with no legal moves AlphaBetaPlayer.get_move
\* runs one search and returns, starting no search at a further depth.
C6_NoMovesStopsAtOnce ==
    (algo = "alphabeta" /\ ~HasMoves(game)) =>
        /\ depth <= 1
        /\ Len(completed) = 1 => pc = "done"

\* C7: for a state with no legal moves every search that returns, at any
\* depth, returns the sentinel, and so does get_move under any clock.
C7_NoMovesSentinel ==
    ~HasMoves(game) =>
        /\ \A k \in DOMAIN completed : completed[k].move = Sentinel
        /\ pc = "done" => result = Sentinel

\* get_move returned for a state with no moves after two searches completed
C7_Witness ==
    /\ ~HasMoves(game) /\ pc = "done" /\ Len(completed) >= 2 /\ result = Sentinel

\* C8 (state part): an invocation that is past its first statement has read
\* the clock, and after a reading below the threshold no frame is left.
C8_PolledFirst ==
    /\ \A i \in DOMAIN stack : stack[i].pc # "check" => stack[i].polled
    /\ TimedOut(reading) => (stack = <<>> /\ pc \in {"timeout", "done"})

\* C8: every invocation reads the clock before any work of its own; a reading
\* below the threshold leaves every frame, and no evaluation, move
\* enumeration or forecast is executed after it.
C8_DeadlineChecked ==
    /\ []C8_PolledFirst
    /\ [][(work' # work => (Top.polled /\ ~TimedOut(reading)))
          /\ (TimedOut(reading) => work' = work)]_vars

\* the deadline expired in the middle of a deeper search
C8_Witness ==
    /\ TimedOut(reading) /\ pc = "timeout"
    /\ Len(completed) >= 1 /\ work > Last(completed).work

\* C9: no invocation is more than depth plies below the root, and the
\* evaluation policy is called only on states exactly depth plies below it.
C9_DepthBound ==
    \A i \in DOMAIN stack :
        /\ i - 1 <= depth
        /\ stack[i].scored => i - 1 = depth

\* a leaf two plies down, scored in a depth-2 search, with moves beyond it
C9_Witness ==
    /\ stack # <<>> /\ depth = 2 /\ Len(stack) = 3
    /\ Top.scored /\ HasMoves(Top.game)

\* C10 (as claimed): a search that returned for a state with legal moves
\* chose the first move, in enumeration order, of maximal root value.
C10_FirstMaximal ==
    \A k \in DOMAIN completed :
        HasMoves(game) => completed[k].move = FirstBest(game, completed[k].depth)

\* C11: when some legal move leaves the opponent without moves (a win for
\* the searching player), a depth-1 search that returned chose a legal move
\* that wins, with root score +infinity.
C11_WinningMoveFound ==
    \A k \in DOMAIN completed :
        (completed[k].depth = 1
         /\ \E i \in 1..Len(game.kids) : is_winner(forecast_move(game, i), "self"))
            => /\ completed[k].score = PosInf
               /\ \E i \in 1..Len(game.kids) :
                     /\ completed[k].move = get_legal_moves(game)[i]
                     /\ is_winner(forecast_move(game, i), "self")

\* minimax and alphabeta both returned at depth 1 for a state whose second
\* move, not its first, wins
C11_Witness ==
    /\ pc = "done" /\ depth = 1 /\ Len(completed) = 2
    /\ Len(game.kids) = 2
    /\ ~is_winner(forecast_move(game, 1), "self")
    /\ is_winner(forecast_move(game, 2), "self")
    /\ completed[1].move = get_legal_moves(game)[2]
    /\ completed[2].move = get_legal_moves(game)[2]

\* the index of move m in the legal-move enumeration of g
IndexOf(g, m) == CHOOSE i \in 1..Len(g.kids) : get_legal_moves(g)[i] = m

\* C12 (as claimed): the root score of the move selected at depth d + 1 is
\* at least the root score of the move selected at depth d.
C12_ScoresNeverDrop ==
    algo = "alphabeta" =>
        \A k \in 1..(Len(completed) - 1) : completed[k + 1].score >= completed[k].score

\* C12 (amended): the score selected at a deeper completed depth is at least
\* the value, at that deeper depth, of the move an earlier completed depth
\* selected.
C12_NoWorseAtDeeperDepth ==
    algo = "alphabeta" =>
        \A k \in DOMAIN completed : \A j \in 1..(k - 1) :
            completed[j].move \in LegalMoves(game) =>
                completed[k].score >=
                    RootValue(game, IndexOf(game, completed[j].move), completed[k].depth)

\* depth 2 selected another move than depth 1, with a lower score than the
\* one depth 1 reported, and the move of depth 1 is worth still less there
C12_Witness ==
    /\ algo = "alphabeta" /\ Len(completed) >= 2
    /\ completed[1].move \in LegalMoves(game)
    /\ completed[2].move \in LegalMoves(game)
    /\ completed[2].move # completed[1].move
    /\ completed[2].score < completed[1].score
    /\ completed[2].score > RootValue(game, IndexOf(game, completed[1].move), 2)

\* C13: when min_value returns to alphabeta's root loop, the returned value
\* exceeds the running best score exactly when the candidate's minimax value
\* does, and is then that minimax value.
C13_RootBoundSound ==
    (Returning /\ Caller.fn = "root" /\ algo = "alphabeta") =>
        LET exact == RootValue(game, Caller.idx, depth) IN
        /\ (Top.v > Caller.v) <=> (exact > Caller.v)
        /\ (Top.v > Caller.v) => Top.v = exact

\* a second candidate returns a cut value at depth 3: not above the running
\* best score, and not its minimax value
C13_Witness ==
    /\ Returning /\ Caller.fn = "root" /\ algo = "alphabeta"
    /\ depth >= 2 /\ Caller.idx = 2
    /\ Caller.v > NegInf
    /\ Top.v # RootValue(game, 2, depth)

\* C14: a helper invocation above the depth limit on a state without legal
\* moves returns the score the evaluation policy gives that state: -infinity
\* when the searching player is to move, +infinity when the opponent is.
C14_TerminalBranchScore ==
    \A i \in DOMAIN stack :
        LET f == stack[i] IN
        (f.fn # "root" /\ f.pc = "ret" /\ ~HasMoves(f.game) /\ i - 1 < depth) =>
            /\ f.v = custom_score(f.game)
            /\ f.v = IF f.game.active = "self" THEN NegInf ELSE PosInf

\* max_value returns for a state two plies down where the searching player
\* has no moves, in a depth-3 search
C14_Witness ==
    /\ stack # <<>> /\ depth = 3 /\ Len(stack) = 3
    /\ Top.fn = "max_value" /\ Top.pc = "ret"
    /\ ~HasMoves(Top.game) /\ Top.v = NegInf

Cells(q) == { q[i] : i \in 1..Len(q) }

\* C15 (as claimed): common_moves_score returns the number of moves that are
\* in both legal-move lists.
C15_CommonMovesCount ==
    comm_moves_score >= 0 => comm_moves_score = Cardinality(Cells(own_moves) \cap Cells(opp_moves))

\* C16: AlphaBetaPlayer.get_move, once called under a clock that ends below
\* the threshold, eventually returns, and it has returned only after a
\* deadline check read a value below the threshold.
C16_ReturnsOnlyByDeadline ==
    /\ (algo = "alphabeta") ~> (pc = "done")
    /\ []((algo = "alphabeta" /\ pc = "done") => reading < TIMER_THRESHOLD)

\* get_move returned after two searches completed and the third was cancelled
C16_Witness ==
    /\ algo = "alphabeta" /\ pc = "done" /\ reading < TIMER_THRESHOLD
    /\ Len(completed) = 2 /\ result \in LegalMoves(game)

RECURSIVE IsSubseq(_, _)
\* a is b with some elements left out
IsSubseq(a, b) ==
    IF a = <<>> THEN TRUE
    ELSE IF b = <<>> THEN FALSE
    ELSE IF Head(a) = Head(b) THEN IsSubseq(Tail(a), Tail(b))
    ELSE IsSubseq(a, Tail(b))

Scored(tr) == SelectSeq(tr, LAMBDA e : e[1] = "score")

\* C17: with no timeout, the states alphabeta forecasts and scores are, in
\* order, among those minimax forecasts and scores on the same state and
\* depth; so are the states it scores, taken alone.
C17_AlphaBetaVisitsSubsequence ==
    pc = "done" =>
        /\ IsSubseq(completed[2].trace, completed[1].trace)
        /\ IsSubseq(Scored(completed[2].trace), Scored(completed[1].trace))

\* at depth 3 alphabeta scored fewer states than minimax, and scored some
C17_Witness ==
    /\ pc = "done" /\ depth = 3
    /\ Len(Scored(completed[2].trace)) < Len(Scored(completed[1].trace))
    /\ Len(Scored(completed[2].trace)) >= 2
====
